---- MODULE Spec2Model ----
(***************************************************************************)
(* Batch retry engine and transaction coordinator of go-aws-v2 (godynamo): *)
(* Retries.ExponentialBackoff, Queries.BatchWriteCreate / BatchWriteDelete *)
(* / BatchGet, Transactions.TxWrite, and the table registries built by     *)
(* NewDynamoDB (Tables.CreateTable / DeleteTable).  A run exercises one    *)
(* entry point (op), by one caller or by two callers at once; the backend  *)
(* client is the environment and answers each request with any response   *)
(* its interface allows.                                                   *)
(***************************************************************************)
EXTENDS Integers, Sequences, FiniteSets, TLC

VARIABLES
    op,           \* the entry point the caller invokes
    fc,           \* Queries.fc / Transactions.fc: the shared *FailConfig
    retries,      \* the *Retries value of the running invocation
    rErr,         \* what the last ExponentialBackoff call returned
    rSleep,       \* the time.Sleep of the last ExponentialBackoff call, in nanoseconds
    rCalls,       \* number of ExponentialBackoff calls made
    rCalc,        \* attempt and elapsed at the start of the last call, and its sleep, jitter, wait
    tableOk,      \* tableName is a key of Queries.tables
    bItems,       \* items / queries argument of the batch operation
    bNil,         \* that argument is the nil slice (then bItems is empty)
    refObjs,      \* refObjs argument of BatchGet (slot contents)
    bPc,          \* position of the batch invocation
    input,        \* RequestItems[table] of the request the loop sends next
    result,       \* result of the last batchWriteUtil / batchGetUtil call
    bErr,         \* error returned by the batch invocation
    items,        \* items accumulated by BatchGet
    calls,        \* backend requests issued by the invocation
    hist,         \* observations of the invocation (see HistInit)
    txItems,      \* items argument of TxWrite
    requestToken, \* requestToken argument of TxWrite
    txPc,         \* position of the TxWrite invocation
    txInput,      \* the TransactWriteItemsInput submitted
    txResp,       \* what the backend answered
    failed,       \* the []TransactionItem TxWrite returns
    txErr,        \* the error TxWrite returns
    txCalls,      \* TransactWriteItems requests issued
    txPair,       \* two TxWrite invocations in flight on one Transactions client
    bPair,        \* two callers invoking write batches on one Queries client
    passed,       \* names of the tables passed to NewDynamoDB
    tTables,      \* keys of Tables.tables
    qTables,      \* keys of Queries.tables
    tLast,        \* the last Tables call: what was asked, what the backend did, what came back
    tCalls        \* number of Tables calls made

retryVars == <<fc, retries, rErr, rSleep, rCalls, rCalc>>
batchVars == <<tableOk, bItems, bNil, refObjs, bPc, input, result, bErr, items, calls, hist>>
concVars == <<txPair, bPair>>
tableVars == <<passed, tTables, qTables, tLast, tCalls>>
txVars == <<txItems, requestToken, txPc, txInput, txResp, failed, txErr, txCalls>>
vars == <<op, fc, retries, rErr, rSleep, rCalls, rCalc, tableOk, bItems, bNil, refObjs, bPc,
          input, result, bErr, items, calls, hist,
          txItems, requestToken, txPc, txInput, txResp, failed, txErr, txCalls, txPair, bPair,
          passed, tTables, qTables, tLast, tCalls>>

----------------------------------------------------------------------------
(* Bounds of the model *)

MaxBase == 2
MaxCap == 5
MaxJitter == 2
MaxBackoffCalls == 6
MaxItems == 3
MaxCalls == 4
MaxKinds == 2
MaxTxItems == 5
MaxReasons == 5
MaxRuns == 2
MaxTableCalls == 3

(* Program constants *)

WriteLimit == 25
GetLimit == 100
TxLimit == 25
Millisecond == 1000000

----------------------------------------------------------------------------
(* Helpers *)

RECURSIVE Pow2(_)
Pow2(n) == IF n <= 0 THEN 1 ELSE 2 * Pow2(n - 1)

Range(s) == {s[i] : i \in 1..Len(s)}

\* the entries of s that are in keep, in the order of s
FilterSeq(s, keep) == SelectSeq(s, LAMBDA x : x \in keep)

Suffixes(s) == {SubSeq(s, k, Len(s)) : k \in 1..(Len(s) + 1)}

\* what a request may leave unprocessed: the backend works through the request in
\* order and stops anywhere (a long multi-get: nowhere, after one key, or at once)
SubLists(s) ==
    IF Len(s) <= WriteLimit THEN Suffixes(s) ELSE {<<>>, Tail(s), s}

----------------------------------------------------------------------------
(* Errors: godynamo/errors.go and goaws errors *)

NoErr == [kind |-> "nil", wrap |-> ""]
Err(k, w) == [kind |-> k, wrap |-> w]

\* every error taken as retryable
RetryableAlways(kind) == TRUE

\* Retryable() of the error kinds: those embedding RetryableClientError
Retryable(kind) == kind \in {"RateLimitExceeded", "ResourceInUse", "TxThrottled", "TxConflict"}

\* handleErr: the backend exception -> the package's error kind
handleErr(exc) ==
    CASE exc = "ProvisionedThroughputExceededException" -> "RateLimitExceeded"
      [] exc = "ResourceNotFoundException" -> "ResourceNotFound"
      [] exc = "ItemCollectionSizeLimitExceededException" -> "CollectionSizeExceeded"
      [] exc = "RequestLimitExceeded" -> "RateLimitExceeded"
      [] exc = "ConditionalCheckFailedException" -> "ConditionCheckFailed"
      [] OTHER -> "InternalError"

BackendExceptions ==
    {"ProvisionedThroughputExceededException", "ResourceNotFoundException",
     "ItemCollectionSizeLimitExceededException", "RequestLimitExceeded",
     "ConditionalCheckFailedException", "other"}

----------------------------------------------------------------------------
(* RetryPolicy: FailConfig, Retries, ExponentialBackoff *)

NoSleep == [slept |-> FALSE, ns |-> 0]
Slept(n) == [slept |-> TRUE, ns |-> n]

\* the locals sleep, jitter and wait of a call (all 0 when the call computes none)
NoCalc == [sleep |-> 0, jitter |-> 0, wait |-> 0]
Calc(s, j) == [sleep |-> s, jitter |-> j, wait |-> s + j]

FailConfigs == [Base : 0..MaxBase, Cap : 0..MaxCap, Jitter : 0..MaxJitter]

ZeroRetries == [base |-> 0, cap |-> 0, jitter |-> 0, attempt |-> 0, elapsed |-> 0]

\* the new state not reset: a call already counted
NewRetriesStale(f) == [base |-> f.Base, cap |-> f.Cap, jitter |-> f.Jitter, attempt |-> 1, elapsed |-> 0]

\* fc.NewRetries(): a new Retries value holding copies of the configuration
NewRetries(f) == [base |-> f.Base, cap |-> f.Cap, jitter |-> f.Jitter, attempt |-> 0, elapsed |-> 0]

\* rnd.Int63n(n) returns a value of [0, n) and panics for n <= 0
Int63n(n) == 0..(n - 1)

\* the clamp forgotten: elapsed grows by the whole wait
ExponentialBackoffNoClamp(r, j) ==
    IF r.elapsed >= r.cap
    THEN [r |-> r, err |-> "MaxRetriesExceeded", sleep |-> NoSleep, calc |-> NoCalc]
    ELSE LET attempt == r.attempt + 1
             wait == r.base * Pow2(attempt) + j
         IN [r |-> [r EXCEPT !.attempt = attempt, !.elapsed = r.elapsed + wait],
             err |-> "nil", sleep |-> Slept(wait * Millisecond),
             calc |-> Calc(r.base * Pow2(attempt), j)]

\* elapsed never advanced: the wait is slept and forgotten
ExponentialBackoffNoElapsed(r, j) ==
    IF r.elapsed >= r.cap
    THEN [r |-> r, err |-> "MaxRetriesExceeded", sleep |-> NoSleep, calc |-> NoCalc]
    ELSE LET attempt == r.attempt + 1
             sleep == r.base * Pow2(attempt)
         IN [r |-> [r EXCEPT !.attempt = attempt], err |-> "nil",
             sleep |-> Slept((sleep + j) * Millisecond), calc |-> Calc(sleep, j)]

\* Retries.ExponentialBackoff with the jitter j drawn from Int63n(r.jitter)
ExponentialBackoff(r, j) ==
    IF r.elapsed >= r.cap
    THEN [r |-> r, err |-> "MaxRetriesExceeded", sleep |-> NoSleep, calc |-> NoCalc]
    ELSE LET attempt == r.attempt + 1
             sleep == r.base * Pow2(attempt)
             wait == sleep + j
         IN IF r.elapsed + wait > r.cap
            THEN [r |-> [r EXCEPT !.attempt = attempt, !.elapsed = r.cap],
                  err |-> "nil",
                  sleep |-> Slept(wait - (wait + r.elapsed - r.cap)),
                  calc |-> Calc(sleep, j)]
            ELSE [r |-> [r EXCEPT !.attempt = attempt, !.elapsed = r.elapsed + wait],
                  err |-> "nil",
                  sleep |-> Slept(wait * Millisecond),
                  calc |-> Calc(sleep, j)]

\* the call when Int63n panics: attempt is already incremented, nothing slept
BackoffPanic(r) ==
    [r |-> [r EXCEPT !.attempt = r.attempt + 1], err |-> "panic", sleep |-> NoSleep,
     calc |-> NoCalc]

\* every outcome of one r.ExponentialBackoff() call
BackoffOutcomes(r) ==
    IF r.elapsed < r.cap /\ Int63n(r.jitter) = {}
    THEN {BackoffPanic(r)}
    ELSE IF r.elapsed >= r.cap
         THEN {ExponentialBackoff(r, 0)}
         ELSE {ExponentialBackoff(r, j) : j \in Int63n(r.jitter)}

----------------------------------------------------------------------------
(* BatchCoordinator: BatchWriteCreate, BatchWriteDelete, BatchGet *)

BatchOps == {"BatchWriteCreate", "BatchWriteDelete", "BatchGet"}

NilItem == 0
BadItem == -1      \* an item attributevalue.MarshalMap rejects
NilResult == [nil |-> TRUE]

Limit(o) == IF o = "BatchGet" THEN GetLimit ELSE WriteLimit

\* one prefix for every operation
UtilNameWrite(o) == "q.batchWriteUtil"

UtilName(o) == IF o = "BatchGet" THEN "q.batchGetUtil" ELSE "q.batchWriteUtil"

\* the size test moved onto the limit: a batch of exactly the limit is refused
TooManyAtLimit(o, n) == n >= Limit(o)

\* len(items) > 25 / len(queries) > 100
TooMany(o, n) == n > Limit(o)

\* the table looked up before the slots are counted
ValidateTableFirst(o, its, refs, known) ==
    IF TooMany(o, Len(its)) THEN "CollectionSizeExceeded"
    ELSE IF ~known THEN "TableNotFound"
    ELSE IF o = "BatchGet" /\ Len(its) # Len(refs) THEN "ReferenceObjectsCount"
    ELSE "nil"

\* the checks at the head of a batch operation, in the code's order; a nil slice
\* has length 0 and passes them like an empty one
Validate(o, its, refs, known) ==
    IF TooMany(o, Len(its)) THEN "CollectionSizeExceeded"
    ELSE IF o = "BatchGet" /\ Len(its) # Len(refs) THEN "ReferenceObjectsCount"
    ELSE IF ~known THEN "TableNotFound"
    ELSE "nil"

\* a list of n entries: entry i is the item with id i
Uniform(n) == [i \in 1..n |-> i]

\* inputs: every short list whose entry i is nil, item i or (create) a bad item,
\* and full lists at and around the operation's limit
ShortInputs(o) ==
    {s \in UNION {[1..n -> (-1)..MaxItems] : n \in 0..MaxItems} :
        \A i \in 1..Len(s) :
            /\ s[i] \in {NilItem, i, BadItem}
            /\ (s[i] = BadItem => o = "BatchWriteCreate")}

LongInputs(o) == {Uniform(Limit(o)), Uniform(Limit(o) + 1)}

BatchInputs(o) == ShortInputs(o) \cup LongInputs(o)

\* the nil entries kept
BuildRequestKeepNil(s) == s

\* the request built from the input: nil entries are skipped
BuildRequest(s) == FilterSeq(s, Range(s) \ {NilItem})

\* the history an invocation starts with
HistInit ==
    [backoffs |-> 0,          \* ExponentialBackoff calls of this invocation
     nonEmpty |-> 0,          \* successful responses with a non-empty unprocessed set
     shrinking |-> TRUE,      \* every response so far succeeded and shrank the unprocessed set
     stuck |-> TRUE,          \* every response so far succeeded, non-empty and not smaller
     lastExc |-> "none",      \* exception of the last backend call ("none": success)
     lastBackoffs |-> 0,      \* ExponentialBackoff calls of the last iteration
     known |-> <<>>,          \* the last reported unprocessed set (at first: the request)
     outstanding |-> {}]      \* items sent and not yet reported processed

\* responses the backend may give to a request: a result, or an exception
BatchResponses(o, req) ==
    {[exc |-> "none", unprocessed |-> u,
      responses |-> IF o = "BatchGet" THEN FilterSeq(req, Range(req) \ Range(u)) ELSE <<>>,
      unmarshalOk |-> ok] :
        u \in SubLists(req), ok \in (IF o = "BatchGet" THEN BOOLEAN ELSE {TRUE})}
    \cup {[exc |-> e, unprocessed |-> <<>>, responses |-> <<>>, unmarshalOk |-> TRUE] :
            e \in BackendExceptions}

\* batchWriteUtil / batchGetUtil: the result is nil whenever the call failed
batchUtil(resp) ==
    IF resp.exc = "none"
    THEN [result |-> [nil |-> FALSE, unprocessed |-> resp.unprocessed,
                      responses |-> resp.responses, unmarshalOk |-> resp.unmarshalOk],
          err |-> "nil"]
    ELSE [result |-> NilResult, err |-> handleErr(resp.exc)]

\* the exit test dropped: the loop ends after any successful response
LoopDoneAlways(res) == TRUE

\* the exit test inverted: the loop ends while items are left
LoopDoneInverted(res) == Len(res.unprocessed) # 0

\* the loop's exit test on a successful result
LoopDone(res) == Len(res.unprocessed) = 0


PrevLen == IF calls = 0 THEN Len(input) ELSE IF result.nil THEN 0 ELSE Len(result.unprocessed)

Observe(resp) ==
    LET ok == resp.exc = "none"
    IN [hist EXCEPT
          !.nonEmpty = IF ok /\ resp.unprocessed # <<>> THEN @ + 1 ELSE @,
          !.shrinking = @ /\ ok /\ Len(resp.unprocessed) < PrevLen,
          !.stuck = @ /\ ok /\ resp.unprocessed # <<>> /\ Len(resp.unprocessed) >= PrevLen,
          !.lastExc = resp.exc,
          !.known = IF ok THEN resp.unprocessed ELSE @,
          !.outstanding = IF ok THEN (@ \ Range(input)) \cup Range(resp.unprocessed) ELSE @]

\* the first len(responses) slots of refObjs receive the returned items, in order
StoreResponses(slots, responses) ==
    [i \in 1..Len(slots) |-> IF i <= Len(responses) THEN responses[i] ELSE slots[i]]

\* items = append(items, ref): ref is the pointer held by slot i
AppendRefs(its, responses) == its \o [i \in 1..Len(responses) |-> i]

\* the part of the loop body after the error switch: BatchGet unmarshals the
\* responses, then the loop ends or goes round again; both read *result
AfterSwitch(o, res, in, r, bo) ==
    IF res.nil
    THEN [pc |-> "panic", err |-> NoErr, input |-> in, retries |-> r, backoffs |-> bo,
          items |-> items, refObjs |-> refObjs]
    ELSE IF o = "BatchGet" /\ res.responses # <<>> /\ ~res.unmarshalOk
    THEN [pc |-> "done", err |-> Err("InternalError", "attributevalue.UnmarshalMap"),
          input |-> in, retries |-> r, backoffs |-> bo, items |-> <<>>, refObjs |-> refObjs]
    ELSE [pc |-> IF LoopDone(res) THEN "done" ELSE "loop",
          err |-> NoErr, input |-> in, retries |-> r, backoffs |-> bo,
          items |-> IF o = "BatchGet" THEN AppendRefs(items, res.responses) ELSE items,
          refObjs |-> IF o = "BatchGet" THEN StoreResponses(refObjs, res.responses) ELSE refObjs]

\* one iteration of the for loop of BatchWriteCreate / BatchWriteDelete / BatchGet for
\* an invocation whose locals input and retries are in and r, the backend answering
\* resp and the backoff (when it is reached) ending as out
LoopBodyOf(o, in, r, resp, out) ==
    LET u == batchUtil(resp)
        res == u.result
    IN IF u.err = "nil"
       THEN AfterSwitch(o, res, in, r, 0)
       ELSE IF u.err = "RateLimitExceeded" \/ Retryable(u.err)
       THEN \* input = &...{RequestItems: result.UnprocessedItems}: reads *result
            IF res.nil
            THEN [pc |-> "panic", err |-> NoErr, input |-> in, retries |-> r,
                  backoffs |-> 0, items |-> items, refObjs |-> refObjs]
            ELSE IF out.err = "panic"
            THEN [pc |-> "panic", err |-> NoErr, input |-> res.unprocessed,
                  retries |-> out.r, backoffs |-> 1, items |-> items, refObjs |-> refObjs]
            ELSE IF out.err # "nil"
            THEN [pc |-> "done", err |-> Err(out.err, "retries.ExponentialBackoff"),
                  input |-> res.unprocessed, retries |-> out.r, backoffs |-> 1,
                  items |-> IF o = "BatchGet" THEN <<>> ELSE items, refObjs |-> refObjs]
            ELSE AfterSwitch(o, res, res.unprocessed, out.r, 1)
       ELSE [pc |-> "done", err |-> Err(u.err, UtilName(o)), input |-> in,
             retries |-> r, backoffs |-> 0,
             items |-> IF o = "BatchGet" THEN <<>> ELSE items, refObjs |-> refObjs]

\* the iteration of the single invocation
LoopBody(o, resp, out) == LoopBodyOf(o, input, retries, resp, out)

----------------------------------------------------------------------------
(* TransactionCoordinator: TxWrite *)

Requests == {"C", "U", "D", "CC", "R"}

\* a member: its Name is its position in the list; only a create carries an Item
TxItem(i, k, it) == [Name |-> i, request |-> k, Item |-> it]

TxItemsOf(kinds) == [i \in 1..Len(kinds) |-> TxItem(i, kinds[i][1], kinds[i][2])]

KindChoices ==
    {<<k, NilItem>> : k \in Requests \ {"C"}} \cup {<<"C", 1>>, <<"C", BadItem>>}

\* every short list of members of any kind, lists of updates up to and around the
\* limit, and lists at and around the limit whose last member is a read
TxInputs ==
    {TxItemsOf(ks) : ks \in UNION {[1..n -> KindChoices] : n \in 0..MaxKinds}}
    \cup {TxItemsOf([i \in 1..n |-> <<"U", NilItem>>]) :
            n \in ((MaxKinds + 1)..MaxTxItems) \cup {TxLimit, TxLimit + 1}}
    \cup {TxItemsOf([i \in 1..n |-> IF i = n THEN <<"R", NilItem>> ELSE <<"U", NilItem>>]) :
            n \in {TxLimit, TxLimit + 1}}

\* the default arm dropped: a member of another kind yields an empty entry
newTxWriteItemNoDefault(ti) ==
    CASE ti.request = "C" ->
            IF ti.Item = BadItem
            THEN [err |-> Err("InternalError", "marshalMap"), entry |-> "none", of |-> ti.Name]
            ELSE [err |-> NoErr, entry |-> "Put", of |-> ti.Name]
      [] ti.request = "U" -> [err |-> NoErr, entry |-> "Update", of |-> ti.Name]
      [] ti.request = "D" -> [err |-> NoErr, entry |-> "Delete", of |-> ti.Name]
      [] ti.request = "CC" -> [err |-> NoErr, entry |-> "ConditionCheck", of |-> ti.Name]
      [] OTHER -> [err |-> NoErr, entry |-> "none", of |-> ti.Name]

\* newTxWriteItem: the backend entry of a member, or the error
newTxWriteItem(ti) ==
    CASE ti.request = "C" ->
            IF ti.Item = BadItem
            THEN [err |-> Err("InternalError", "marshalMap"), entry |-> "none", of |-> ti.Name]
            ELSE [err |-> NoErr, entry |-> "Put", of |-> ti.Name]
      [] ti.request = "U" -> [err |-> NoErr, entry |-> "Update", of |-> ti.Name]
      [] ti.request = "D" -> [err |-> NoErr, entry |-> "Delete", of |-> ti.Name]
      [] ti.request = "CC" -> [err |-> NoErr, entry |-> "ConditionCheck", of |-> ti.Name]
      [] OTHER -> [err |-> Err("InvalidRequestType", ""), entry |-> "none", of |-> ti.Name]

ReasonCodes == {"None", "ConditionalCheckFailed", "ThrottlingError"}

\* what TransactWriteItems may answer
TxResponses ==
    {[exc |-> "none", reasons |-> <<>>, status |-> 0]}
    \cup {[exc |-> "TransactionCanceledException", reasons |-> rs, status |-> 0] :
            rs \in UNION {[1..n -> ReasonCodes] : n \in 0..MaxReasons}}
    \cup {[exc |-> e, reasons |-> <<>>, status |-> 0] :
            e \in {"TransactionConflictException", "TransactionInProgressException",
                   "ResponseErrorNil", "other"}}
    \cup {[exc |-> "ResponseError", reasons |-> <<>>, status |-> st] : st \in {400, 404, 500}}

\* throttling looked at before the condition checks
CancelErrorThrottledFirst(check, throttled) ==
    IF throttled THEN "TxThrottled"
    ELSE IF check THEN "TxConditionCheckFailed"
    ELSE "InternalError"

\* the error of a cancelled transaction, from the two flags the scan sets
CancelError(check, throttled) ==
    IF check THEN "TxConditionCheckFailed"
    ELSE IF throttled THEN "TxThrottled"
    ELSE "InternalError"

\* the scan of txCanceled.CancellationReasons: items[i] is appended for every
\* reason i that is a failed condition check or a throttle
ScanReasons(its, reasons) ==
    LET hit == {i \in 1..Len(reasons) : reasons[i] \in {"ConditionalCheckFailed", "ThrottlingError"}}
        idx == SelectSeq([i \in 1..Len(reasons) |-> i], LAMBDA i : i \in hit)
    IN [panic |-> \E i \in hit : i > Len(its),     \* items[i]: index out of range
        check |-> \E i \in 1..Len(reasons) : reasons[i] = "ConditionalCheckFailed",
        throttled |-> \E i \in 1..Len(reasons) : reasons[i] = "ThrottlingError",
        failed |-> [n \in 1..Len(idx) |-> IF idx[n] <= Len(its) THEN its[idx[n]] ELSE TxItem(0, "", NilItem)]]

\* the error switch of TxWrite on a failed TransactWriteItems
TxClassify(its, resp) ==
    CASE resp.exc = "TransactionCanceledException" ->
            LET sc == ScanReasons(its, resp.reasons)
            IN IF sc.panic
               THEN [pc |-> "panic", failed |-> <<>>, err |-> NoErr]
               ELSE [pc |-> "done", failed |-> sc.failed,
                     err |-> Err(CancelError(sc.check, sc.throttled),
                                 IF ~sc.check /\ ~sc.throttled THEN "d.svc.TransactWriteItems" ELSE "")]
      [] resp.exc = "TransactionConflictException" ->
            [pc |-> "done", failed |-> <<>>, err |-> Err("TxConflict", "")]
      [] resp.exc = "TransactionInProgressException" ->
            [pc |-> "done", failed |-> <<>>, err |-> Err("TxInProgress", "")]
      [] resp.exc = "ResponseErrorNil" ->
            [pc |-> "done", failed |-> <<>>, err |-> Err("InternalError", "s.svc.DeleteMessage")]
      [] resp.exc = "ResponseError" ->
            [pc |-> "done", failed |-> <<>>,
             err |-> IF resp.status = 400 THEN Err("BadTxRequest", "")
                     ELSE IF resp.status = 404 THEN Err("ResourceNotFound", "")
                     ELSE Err("InternalError", "s.svc.DeleteMessage")]
      [] OTHER ->
            [pc |-> "done", failed |-> <<>>, err |-> Err("InternalError", "s.svc.DeleteMessage")]

\* the size test moved onto the limit: a transaction of exactly 25 members is refused
TxTooManyAtLimit(n) == n >= TxLimit

\* len(items) > 25
TxTooMany(n) == n > TxLimit

\* the token never sent
ClientRequestTokenNever(tok) == <<>>

\* the token sent whatever it is
ClientRequestTokenAlways(tok) == <<tok>>

\* txInput.ClientRequestToken: set (a one-element list) only for a non-empty token
ClientRequestToken(tok) == IF tok # "" THEN <<tok>> ELSE <<>>

NoTxInput == [token |-> <<>>, entries |-> <<>>]
NoTxResp == [exc |-> "unsent", reasons |-> <<>>, status |-> 0]

----------------------------------------------------------------------------
(* Two TxWrite invocations on one client: each is its validation and entries, *)
(* the blocking TransactWriteItems call, and the classification of the answer *)

PairTokens == {"", "token-1", "token-2"}

\* the members both invocations carry: one update, which passes validation
PairMembers == TxItemsOf(<< <<"U", NilItem>> >>)

TxIdle == [pc |-> "idle", token |-> "", sent |-> <<>>, dup |-> FALSE,
           err |-> NoErr, failed |-> <<>>, calls |-> 0]

\* the tokens of the other invocation's request while it is pending at the backend
PendingTokens(pair, i) == {pair[j].sent : j \in {k \in DOMAIN pair \ {i} : pair[k].pc = "pending"}}

\* the backend refuses a request whose token is that of a transaction still executing
InProgressAtBackend(sent, pending) == sent # <<>> /\ sent \in pending

\* answers of the backend that carry no cancellation reasons
PairResponses == {r \in TxResponses : r.reasons = <<>>}

\* what TxWrite returns for an answer
TxReturn(its, resp) ==
    IF resp.exc = "none"
    THEN [pc |-> "done", failed |-> <<>>, err |-> NoErr]
    ELSE TxClassify(its, resp)

----------------------------------------------------------------------------
(* Two callers on one Queries client: each runs write batches one after another, *)
(* the two interleaving at the backend calls                                      *)

\* the locals of a caller's running invocation, and how many it has started
BIdle == [pc |-> "idle", o |-> "", items |-> <<>>, input |-> <<>>,
          retries |-> ZeroRetries, err |-> NoErr, calls |-> 0, runs |-> 0]

PairInputs == {Uniform(1), Uniform(2)}

\* a nil-pointer panic in any goroutine ends the process
Crashed == \E i \in DOMAIN bPair : bPair[i].pc = "panic"

----------------------------------------------------------------------------
(* DynamoDB client: NewDynamoDB, Tables.CreateTable, Tables.DeleteTable *)

TableNames == {"t1", "t2"}

\* NewTables(svc, tm): the registry starts as a new empty map, whatever tm holds
NewTables(tm) == {}

\* NewQueries(svc, tm, fc): Queries keeps tm
NewQueries(tm) == tm

\* what the backend may answer to CreateTable / DeleteTable
TableExceptions == {"none", "ResourceNotFoundException", "other"}

NoTableCall == [call |-> "none", name |-> "", before |-> {}, backend |-> 0, err |-> NoErr]

\* Tables.CreateTable, the backend answering exc
CreateTable(reg, name, exc) ==
    IF exc # "none"
    THEN [tables |-> reg, backend |-> 1, err |-> Err(handleErr(exc), "t.svc.CreateTable")]
    ELSE [tables |-> reg \cup {name}, backend |-> 1, err |-> NoErr]

\* the entry removed before the backend is asked
DeleteTableEager(reg, name, exc) ==
    IF name \notin reg
    THEN [tables |-> reg, backend |-> 0, err |-> Err("TableNotFound", "")]
    ELSE IF exc # "none"
    THEN [tables |-> reg \ {name}, backend |-> 1, err |-> Err(handleErr(exc), "t.svc.DeleteTable")]
    ELSE [tables |-> reg \ {name}, backend |-> 1, err |-> NoErr]

\* Tables.DeleteTable, the backend answering exc (when it is asked)
DeleteTable(reg, name, exc) ==
    IF name \notin reg
    THEN [tables |-> reg, backend |-> 0, err |-> Err("TableNotFound", "")]
    ELSE IF exc # "none"
    THEN [tables |-> reg, backend |-> 1, err |-> Err(handleErr(exc), "t.svc.DeleteTable")]
    ELSE [tables |-> reg \ {name}, backend |-> 1, err |-> NoErr]

----------------------------------------------------------------------------
(* Actions *)

\* ExponentialBackoff called directly on a Retries value
BackoffCall ==
    /\ op = "ExponentialBackoff"
    /\ rCalls < MaxBackoffCalls
    /\ rErr # "panic"
    /\ \E out \in BackoffOutcomes(retries) :
          /\ retries' = out.r
          /\ rErr' = out.err
          /\ rSleep' = out.sleep
          /\ rCalc' = [attempt |-> retries.attempt, elapsed |-> retries.elapsed,
                       sleep |-> out.calc.sleep, jitter |-> out.calc.jitter,
                       wait |-> out.calc.wait]
    /\ rCalls' = rCalls + 1
    /\ UNCHANGED <<op, fc>>
    /\ UNCHANGED batchVars
    /\ UNCHANGED txVars
    /\ UNCHANGED concVars
    /\ UNCHANGED tableVars

\* entry of a batch operation up to the loop: validation and the first request
BatchBegin ==
    /\ op \in BatchOps
    /\ bPc = "start"
    /\ LET fail(k) == /\ bPc' = "done"
                      /\ bErr' = Err(k, "")
                      /\ UNCHANGED <<input, retries, hist>>
           v == Validate(op, bItems, refObjs, tableOk)
       IN IF v # "nil"
          THEN fail(v)
          ELSE IF BadItem \in Range(bItems)
          THEN /\ bPc' = "done"
               /\ bErr' = Err("InternalError", "attributevalue.MarshalMap")
               /\ UNCHANGED <<input, retries, hist>>
          ELSE /\ bPc' = "loop"
               /\ input' = BuildRequest(bItems)
               /\ retries' = NewRetries(fc)
               /\ hist' = [HistInit EXCEPT !.outstanding = Range(BuildRequest(bItems)),
                                          !.known = BuildRequest(bItems)]
               /\ bErr' = NoErr
    /\ UNCHANGED <<op, fc, rErr, rSleep, rCalls, rCalc, tableOk, bItems, bNil, refObjs,
                   result, items, calls>>
    /\ UNCHANGED txVars
    /\ UNCHANGED concVars
    /\ UNCHANGED tableVars

\* one iteration of the loop: one backend request and what the code does with the answer
BatchIterate ==
    /\ op \in BatchOps
    /\ bPc = "loop"
    /\ calls < MaxCalls
    /\ \E resp \in BatchResponses(op, input) :
       \E out \in BackoffOutcomes(retries) :
          LET n == LoopBody(op, resp, out)
          IN /\ result' = batchUtil(resp).result
             /\ bPc' = n.pc
             /\ bErr' = n.err
             /\ input' = n.input
             /\ retries' = n.retries
             /\ items' = n.items
             /\ refObjs' = n.refObjs
             /\ rCalls' = rCalls + n.backoffs
             /\ hist' = [Observe(resp) EXCEPT !.backoffs = @ + n.backoffs,
                                            !.lastBackoffs = n.backoffs]
    /\ calls' = calls + 1
    /\ UNCHANGED <<op, fc, rErr, rSleep, rCalc, tableOk, bItems, bNil>>
    /\ UNCHANGED txVars
    /\ UNCHANGED concVars
    /\ UNCHANGED tableVars

\* TxWrite from entry to return: validation, the entries, one submission, the classification
TxWrite ==
    /\ op = "TxWrite"
    /\ txPc = "start"
    /\ LET built == [i \in 1..Len(txItems) |-> newTxWriteItem(txItems[i])]
           bad == {i \in 1..Len(txItems) : built[i].err # NoErr}
           first == CHOOSE i \in bad : \A j \in bad : i <= j
       IN IF TxTooMany(Len(txItems))
          THEN /\ txPc' = "done"
               /\ txErr' = Err("TxItemsExceedsLimit", "")
               /\ UNCHANGED <<txInput, txResp, failed, txCalls>>
          ELSE IF bad # {}
          THEN /\ txPc' = "done"
               /\ txErr' = [built[first].err EXCEPT !.wrap = "newTxWriteItem"]
               /\ UNCHANGED <<txInput, txResp, failed, txCalls>>
          ELSE \E resp \in TxResponses :
                  LET c == IF resp.exc = "none"
                           THEN [pc |-> "done", failed |-> <<>>, err |-> NoErr]
                           ELSE TxClassify(txItems, resp)
                  IN /\ txInput' = [token |-> ClientRequestToken(requestToken),
                                    entries |-> [i \in 1..Len(built) |->
                                                   [entry |-> built[i].entry, of |-> built[i].of]]]
                     /\ txResp' = resp
                     /\ txCalls' = txCalls + 1
                     /\ txPc' = c.pc
                     /\ failed' = c.failed
                     /\ txErr' = c.err
    /\ UNCHANGED <<op, txItems, requestToken>>
    /\ UNCHANGED retryVars
    /\ UNCHANGED batchVars
    /\ UNCHANGED concVars
    /\ UNCHANGED tableVars

\* a caller invokes its write batch (again, once the last invocation has returned)
PairBegin ==
    /\ op = "BatchTwice"
    /\ ~Crashed
    /\ \E i \in DOMAIN bPair :
          /\ \/ bPair[i].pc = "start"
             \/ bPair[i].pc = "done" /\ bPair[i].runs < MaxRuns
          /\ LET v == Validate(bPair[i].o, bPair[i].items, <<>>, tableOk)
             IN IF v # "nil"
                THEN bPair' = [bPair EXCEPT ![i] =
                                 [@ EXCEPT !.pc = "done", !.err = Err(v, ""), !.calls = 0,
                                           !.runs = @ + 1]]
                ELSE bPair' = [bPair EXCEPT ![i] =
                                 [@ EXCEPT !.pc = "loop", !.err = NoErr, !.calls = 0,
                                           !.input = BuildRequest(bPair[i].items),
                                           !.retries = NewRetries(fc),
                                           !.runs = @ + 1]]
    /\ UNCHANGED <<op, txPair>>
    /\ UNCHANGED retryVars
    /\ UNCHANGED batchVars
    /\ UNCHANGED txVars
    /\ UNCHANGED tableVars

\* one iteration of a caller's loop
PairIterate ==
    /\ op = "BatchTwice"
    /\ ~Crashed
    /\ \E i \in DOMAIN bPair :
          /\ bPair[i].pc = "loop"
          /\ bPair[i].calls < MaxCalls
          /\ \E resp \in BatchResponses(bPair[i].o, bPair[i].input) :
             \E out \in BackoffOutcomes(bPair[i].retries) :
                LET n == LoopBodyOf(bPair[i].o, bPair[i].input, bPair[i].retries, resp, out)
                IN bPair' = [bPair EXCEPT ![i] =
                               [@ EXCEPT !.pc = n.pc, !.err = n.err, !.input = n.input,
                                         !.retries = n.retries, !.calls = @ + 1]]
    /\ UNCHANGED <<op, txPair>>
    /\ UNCHANGED retryVars
    /\ UNCHANGED batchVars
    /\ UNCHANGED txVars
    /\ UNCHANGED tableVars

\* invocation i of the pair reaches TransactWriteItems: the request is sent, and the
\* backend either refuses it at once (its token is in progress) or starts executing it
TxSubmit ==
    /\ op = "TxWriteTwice"
    /\ \E i \in DOMAIN txPair :
          /\ txPair[i].pc = "start"
          /\ LET sent == ClientRequestToken(txPair[i].token)
                 dup == /\ txPair[i].token # ""
                        /\ \E j \in DOMAIN txPair \ {i} :
                              txPair[j].pc = "pending" /\ txPair[j].token = txPair[i].token
                 c == TxReturn(PairMembers, [exc |-> "TransactionInProgressException",
                                             reasons |-> <<>>, status |-> 0])
             IN IF InProgressAtBackend(sent, PendingTokens(txPair, i))
                THEN txPair' = [txPair EXCEPT ![i] =
                                  [@ EXCEPT !.pc = c.pc, !.sent = sent, !.dup = dup,
                                            !.err = c.err, !.failed = c.failed,
                                            !.calls = @ + 1]]
                ELSE txPair' = [txPair EXCEPT ![i] =
                                  [@ EXCEPT !.pc = "pending", !.sent = sent, !.dup = dup,
                                            !.calls = @ + 1]]
    /\ UNCHANGED <<op, bPair>>
    /\ UNCHANGED retryVars
    /\ UNCHANGED batchVars
    /\ UNCHANGED txVars
    /\ UNCHANGED tableVars

\* the backend answers the pending request of invocation i, and TxWrite returns
TxAnswer ==
    /\ op = "TxWriteTwice"
    /\ \E i \in DOMAIN txPair :
          /\ txPair[i].pc = "pending"
          /\ \E resp \in PairResponses :
                LET c == TxReturn(PairMembers, resp)
                IN txPair' = [txPair EXCEPT ![i] =
                                [@ EXCEPT !.pc = c.pc, !.err = c.err, !.failed = c.failed]]
    /\ UNCHANGED <<op, bPair>>
    /\ UNCHANGED retryVars
    /\ UNCHANGED batchVars
    /\ UNCHANGED txVars
    /\ UNCHANGED tableVars

\* d.Tables.CreateTable(ctx, table) for a table named name
CallCreateTable ==
    /\ op = "Tables"
    /\ tCalls < MaxTableCalls
    /\ \E name \in TableNames, exc \in TableExceptions :
          LET r == CreateTable(tTables, name, exc)
          IN /\ tTables' = r.tables
             /\ tLast' = [call |-> "CreateTable", name |-> name, before |-> tTables,
                          backend |-> r.backend, err |-> r.err]
    /\ tCalls' = tCalls + 1
    /\ UNCHANGED <<op, passed, qTables>>
    /\ UNCHANGED retryVars
    /\ UNCHANGED batchVars
    /\ UNCHANGED txVars
    /\ UNCHANGED concVars

\* d.Tables.DeleteTable(ctx, name)
CallDeleteTable ==
    /\ op = "Tables"
    /\ tCalls < MaxTableCalls
    /\ \E name \in TableNames, exc \in TableExceptions :
          LET r == DeleteTable(tTables, name, exc)
          IN /\ tTables' = r.tables
             /\ tLast' = [call |-> "DeleteTable", name |-> name, before |-> tTables,
                          backend |-> r.backend, err |-> r.err]
    /\ tCalls' = tCalls + 1
    /\ UNCHANGED <<op, passed, qTables>>
    /\ UNCHANGED retryVars
    /\ UNCHANGED batchVars
    /\ UNCHANGED txVars
    /\ UNCHANGED concVars

----------------------------------------------------------------------------
(* Specification *)

InitRetry ==
    /\ op = "ExponentialBackoff"
    /\ fc \in FailConfigs
    /\ retries = NewRetries(fc)
    /\ tableOk = TRUE /\ bItems = <<>> /\ bNil = FALSE /\ refObjs = <<>>

InitBatch ==
    /\ op \in BatchOps
    /\ fc \in {f \in FailConfigs : f.Base = 1 /\ f.Cap \in 1..2 /\ f.Jitter = 1}
    /\ retries = ZeroRetries
    /\ tableOk \in BOOLEAN
    /\ bItems \in BatchInputs(op)
    /\ bNil \in IF bItems = <<>> THEN BOOLEAN ELSE {FALSE}
    /\ refObjs \in IF op = "BatchGet"
                   THEN {[i \in 1..n |-> NilItem] : n \in {Len(bItems), Len(bItems) + 1}}
                   ELSE {<<>>}

InitTx ==
    /\ op = "TxWrite"
    /\ fc \in {f \in FailConfigs : f.Base = 1 /\ f.Cap = 1 /\ f.Jitter = 1}
    /\ retries = ZeroRetries
    /\ tableOk = TRUE /\ bItems = <<>> /\ bNil = FALSE /\ refObjs = <<>>
    /\ txItems \in TxInputs
    /\ requestToken \in {"", "token-1"}

InitTxPair ==
    /\ op = "TxWriteTwice"
    /\ fc \in {f \in FailConfigs : f.Base = 1 /\ f.Cap = 1 /\ f.Jitter = 1}
    /\ retries = ZeroRetries
    /\ tableOk = TRUE /\ bItems = <<>> /\ bNil = FALSE /\ refObjs = <<>>
    /\ txItems = <<>> /\ requestToken = ""
    /\ txPair \in {[i \in 1..2 |-> [TxIdle EXCEPT !.pc = "start", !.token = t[i]]] :
                     t \in [1..2 -> PairTokens]}

InitBatchPair ==
    /\ op = "BatchTwice"
    /\ fc \in {f \in FailConfigs : f.Base = 1 /\ f.Cap = 1 /\ f.Jitter = 1}
    /\ retries = ZeroRetries
    /\ tableOk \in BOOLEAN
    /\ bItems = <<>> /\ bNil = FALSE /\ refObjs = <<>>
    /\ txItems = <<>> /\ requestToken = ""
    /\ bPair \in {[i \in 1..2 |-> [BIdle EXCEPT !.pc = "start", !.o = a[i][1], !.items = a[i][2]]] :
                    a \in [1..2 -> {"BatchWriteCreate", "BatchWriteDelete"} \X PairInputs]}

NoTxPair == txPair = [i \in 1..2 |-> TxIdle]
NoBatchPair == bPair = [i \in 1..2 |-> BIdle]
\* NewDynamoDB(config, tables, failConfig)
InitTables ==
    /\ op = "Tables"
    /\ fc \in {f \in FailConfigs : f.Base = 1 /\ f.Cap = 1 /\ f.Jitter = 1}
    /\ retries = ZeroRetries
    /\ tableOk = TRUE /\ bItems = <<>> /\ bNil = FALSE /\ refObjs = <<>>
    /\ txItems = <<>> /\ requestToken = ""
    /\ passed \in SUBSET TableNames
    /\ tTables = NewTables(passed)
    /\ qTables = NewQueries(passed)

NoTables == passed = {} /\ tTables = {} /\ qTables = {}
Idle == NoTxPair /\ NoBatchPair /\ NoTables

Init ==
    /\ \/ InitRetry /\ txItems = <<>> /\ requestToken = "" /\ Idle
       \/ InitBatch /\ txItems = <<>> /\ requestToken = "" /\ Idle
       \/ InitTx /\ Idle
       \/ InitTxPair /\ NoBatchPair /\ NoTables
       \/ InitBatchPair /\ NoTxPair /\ NoTables
       \/ InitTables /\ NoTxPair /\ NoBatchPair
    /\ tLast = NoTableCall /\ tCalls = 0
    /\ txPc = "start" /\ txInput = NoTxInput /\ txResp = NoTxResp
    /\ failed = <<>> /\ txErr = NoErr /\ txCalls = 0
    /\ rErr = "none" /\ rSleep = NoSleep /\ rCalls = 0
    /\ rCalc = [attempt |-> 0, elapsed |-> 0, sleep |-> 0, jitter |-> 0, wait |-> 0]
    /\ bPc = "start" /\ input = <<>> /\ result = NilResult /\ bErr = NoErr
    /\ items = <<>> /\ calls = 0 /\ hist = HistInit

Next ==
    \/ BackoffCall
    \/ BatchBegin
    \/ BatchIterate
    \/ TxWrite
    \/ TxSubmit
    \/ TxAnswer
    \/ PairBegin
    \/ PairIterate
    \/ CallCreateTable
    \/ CallDeleteTable

Spec == Init /\ [][Next]_vars

----------------------------------------------------------------------------
(* Properties *)

BatchRan == op \in BatchOps /\ calls >= 1
WriteOps == {"BatchWriteCreate", "BatchWriteDelete"}
Throttles == {"ProvisionedThroughputExceededException", "RequestLimitExceeded"}
LastOk == BatchRan /\ hist.lastExc = "none" /\ ~result.nil
Unprocessed == IF result.nil THEN <<>> ELSE result.unprocessed
Cancelled == op = "TxWrite" /\ txPc # "start" /\ txResp.exc = "TransactionCanceledException"
AnyReason(code) == \E i \in 1..Len(txResp.reasons) : txResp.reasons[i] = code

\* C1: a batch operation that returns a nil error has had, as its last backend
\* response, a success with an empty unprocessed set, and no item it was given is
\* still unprocessed; a return with anything left carries a non-nil error.
C1_NilErrorOnlyWhenComplete ==
    (op \in BatchOps /\ bPc = "done" /\ bErr = NoErr) =>
        /\ LastOk
        /\ Unprocessed = <<>>
        /\ hist.outstanding = {}

C1_Witness ==
    /\ op \in BatchOps /\ bPc = "done" /\ bErr = NoErr
    /\ hist.nonEmpty >= 1 /\ calls >= 2

\* C2: after a successful response with a non-empty unprocessed set, the request
\* the loop sends next is exactly that unprocessed set, and one ExponentialBackoff
\* call was made before it.
C2_NextRequestIsRemainder ==
    (LastOk /\ bPc = "loop" /\ Unprocessed # <<>>) =>
        /\ input = Unprocessed
        /\ hist.lastBackoffs = 1

\* C3: while the backend keeps reporting a non-empty unprocessed set that never
\* shrinks, the number of requests stays within what the retry policy allows
\* (cap / base backoffs, one refusal), and a return is MaxRetriesExceeded.
C3_StuckBackendExhaustsPolicy ==
    (BatchRan /\ hist.stuck) =>
        /\ calls <= (fc.Cap \div fc.Base) + 2
        /\ (bPc = "done" => bErr.kind = "MaxRetriesExceeded")

\* C4: a write batch whose backend shrinks the unprocessed set on every call
\* ends with a nil error, having issued one request for the input and one more
\* per non-empty unprocessed set returned, within as many requests as it has items.
C4_ShrinkingBatchSucceeds ==
    (op \in WriteOps /\ calls >= 1 /\ hist.shrinking) =>
        /\ bPc \in {"loop", "done"}
        /\ Len(bItems) <= WriteLimit
        /\ calls <= Len(BuildRequest(bItems))
        /\ hist.backoffs <= hist.nonEmpty
        /\ Len(Unprocessed) <= Len(BuildRequest(bItems)) - calls
        /\ (bPc = "done" => bErr = NoErr /\ calls = hist.nonEmpty + 1)
        /\ (bPc = "loop" => Unprocessed # <<>> /\ calls = hist.nonEmpty)

C4_Witness ==
    /\ op \in WriteOps /\ hist.shrinking /\ bPc = "done"
    /\ Len(bItems) = WriteLimit /\ calls = 3

\* C5: a throttling or rate-limit failure of the backend call makes the operation
\* back off once and go round again with the last known unprocessed set; it
\* neither returns that error nor crashes.
C5_ThrottleBacksOffAndRetries ==
    (BatchRan /\ hist.lastExc \in Throttles) =>
        /\ bPc # "panic"
        /\ ~(bPc = "done" /\ bErr.kind = "RateLimitExceeded")
        /\ hist.lastBackoffs = 1
        /\ (bPc = "loop" => input = hist.known)

\* C6: a retryable backend error is retried through the retry policy: a batch
\* operation backs off on it, and TxWrite returns a retryable error only once
\* the policy has refused another backoff.
C6_RetryableRetriedUntilExhausted ==
    /\ (BatchRan /\ hist.lastExc # "none" /\ Retryable(handleErr(hist.lastExc))) =>
          (bPc # "panic" /\ hist.lastBackoffs = 1)
    /\ (op = "TxWrite" /\ txPc = "done" /\ Retryable(txErr.kind)) =>
          (rCalls >= 1 /\ rErr = "MaxRetriesExceeded")

\* C7: a cancellation with one reason per member, at least one of them
\* ConditionalCheckFailed, returns TxConditionCheckFailed and exactly the members
\* whose own reason is ConditionalCheckFailed.
C7_FailedAreConditionFailures ==
    (Cancelled /\ Len(txResp.reasons) = Len(txItems) /\ AnyReason("ConditionalCheckFailed")) =>
        /\ txPc = "done"
        /\ txErr.kind = "TxConditionCheckFailed"
        /\ failed = SelectSeq(txItems,
                       LAMBDA m : txResp.reasons[m.Name] = "ConditionalCheckFailed")

\* C8: a cancellation whose number of reasons differs from the number of members
\* returns an error with an empty failed-member list, and does not crash.
C8_LengthMismatchAttributesNothing ==
    (Cancelled /\ Len(txResp.reasons) # Len(txItems)) =>
        /\ txPc = "done"
        /\ txErr # NoErr
        /\ failed = <<>>

\* C9: the error TxWrite returns for a cancellation is TxConditionCheckFailed
\* (not retryable) if any reason is ConditionalCheckFailed, else TxThrottled
\* (retryable) if any reason is ThrottlingError, else an internal error with no
\* failed member.
C9_CancelErrorByPriority ==
    (Cancelled /\ txPc = "done") =>
        IF AnyReason("ConditionalCheckFailed")
        THEN txErr.kind = "TxConditionCheckFailed" /\ ~Retryable(txErr.kind)
        ELSE IF AnyReason("ThrottlingError")
        THEN txErr.kind = "TxThrottled" /\ Retryable(txErr.kind)
        ELSE txErr.kind = "InternalError" /\ ~Retryable(txErr.kind) /\ failed = <<>>

C9_Witness ==
    /\ Cancelled /\ txPc = "done"
    /\ AnyReason("ConditionalCheckFailed") /\ AnyReason("ThrottlingError")
    /\ txResp.reasons[1] = "ThrottlingError"
    /\ txErr.kind = "TxConditionCheckFailed"

\* C10: over the ExponentialBackoff calls on a Retries value, elapsed never
\* decreases and never exceeds cap, and a call made with elapsed = cap returns
\* MaxRetriesExceeded, sleeps nothing and leaves elapsed as it is.
C10_ElapsedMonotoneWithinCap ==
    [][/\ retries'.elapsed >= retries.elapsed
       /\ retries'.elapsed <= retries'.cap
       /\ (rCalls' = rCalls + 1 /\ retries.elapsed = retries.cap) =>
             /\ rErr' = "MaxRetriesExceeded"
             /\ rSleep' = NoSleep
             /\ retries'.elapsed = retries.elapsed]_vars

C10_Witness ==
    /\ op = "ExponentialBackoff" /\ rErr = "MaxRetriesExceeded"
    /\ retries.cap > 0 /\ retries.elapsed = retries.cap /\ retries.attempt >= 2

\* C11: the k-th successful ExponentialBackoff call on a fresh Retries (k = 0 for
\* the first) computes sleep = base * 2^k, the exponent being attempt as it was when
\* the call started, and wait = sleep + jitter with 0 <= jitter < the jitter bound;
\* each successful call adds exactly 1 to attempt.
C11_SleepIsBaseTimesTwoToTheAttempt ==
    (op = "ExponentialBackoff" /\ rErr = "nil") =>
        /\ rCalc.attempt = rCalls - 1
        /\ retries.attempt = rCalc.attempt + 1
        /\ rCalc.sleep = retries.base * Pow2(rCalc.attempt)
        /\ rCalc.jitter >= 0 /\ rCalc.jitter < retries.jitter
        /\ rCalc.wait = rCalc.sleep + rCalc.jitter

\* C12: with a jitter bound of 0 an ExponentialBackoff call does not crash the
\* random source: it completes, and a successful call waits exactly its sleep.
C12_ZeroJitterMeansNoJitter ==
    (op = "ExponentialBackoff" /\ retries.jitter = 0 /\ rCalls >= 1) =>
        /\ rErr # "panic"
        /\ (rErr = "nil" => rCalc.wait = rCalc.sleep)

\* C13: a call whose wait would carry elapsed past cap sleeps exactly cap - elapsed
\* milliseconds (the unit of an unclamped wait), sets elapsed to cap and succeeds.
C13_ClampedSleepIsRemainderInMilliseconds ==
    (op = "ExponentialBackoff" /\ rCalls >= 1 /\ rErr # "panic"
        /\ rCalc.elapsed < retries.cap /\ rCalc.elapsed + rCalc.wait > retries.cap) =>
        /\ rErr = "nil"
        /\ retries.elapsed = retries.cap
        /\ rSleep = Slept((retries.cap - rCalc.elapsed) * Millisecond)

SizeError == Err("CollectionSizeExceeded", "")
Entered == op \in BatchOps /\ bPc # "start"
PassesValidation == tableOk /\ (op = "BatchGet" => Len(refObjs) = Len(bItems))
LastRejected == BatchRan /\ hist.lastExc # "none" /\ ~Retryable(handleErr(hist.lastExc))
LastRetryable == BatchRan /\ hist.lastExc # "none" /\ Retryable(handleErr(hist.lastExc))

\* C14: a batch of more than 25 writes or more than 100 keys returns
\* CollectionSizeExceeded without any backend call; a batch of exactly the limit is
\* not refused for its size and, when nothing else is wrong, reaches the loop.
C14_OverLimitRefusedAtLimitAccepted ==
    Entered =>
        /\ (Len(bItems) > (IF op = "BatchGet" THEN GetLimit ELSE WriteLimit)) =>
              (bPc = "done" /\ bErr = SizeError /\ calls = 0)
        /\ (Len(bItems) = (IF op = "BatchGet" THEN GetLimit ELSE WriteLimit)) =>
              /\ ~(bErr = SizeError /\ calls = 0)
              /\ (PassesValidation => bPc = "loop" \/ calls >= 1)

C14_Witness ==
    /\ op = "BatchGet" /\ Len(bItems) = GetLimit + 1 /\ Len(refObjs) = Len(bItems)
    /\ tableOk /\ bPc = "done" /\ bErr = SizeError /\ calls = 0

\* C15 (as stated): BatchGet with len(queries) # len(refObjs) returns the
\* reference-objects-count error without any backend call.
C15_CountMismatchRefused ==
    (op = "BatchGet" /\ bPc # "start" /\ Len(bItems) # Len(refObjs)) =>
        (bPc = "done" /\ bErr = Err("ReferenceObjectsCount", "") /\ calls = 0)

\* C15 (amended): BatchGet with at most 100 queries and len(queries) # len(refObjs)
\* returns the reference-objects-count error without any backend call, whether or
\* not the table is known; with more than 100 queries the size check answers first.
C15_CountMismatchRefusedWithinLimit ==
    (op = "BatchGet" /\ bPc # "start" /\ Len(bItems) # Len(refObjs)) =>
        /\ bPc = "done" /\ calls = 0
        /\ bErr = IF Len(bItems) <= GetLimit THEN Err("ReferenceObjectsCount", "") ELSE SizeError

C15_Witness ==
    /\ op = "BatchGet" /\ bPc = "done" /\ ~tableOk
    /\ Len(bItems) = GetLimit /\ Len(refObjs) = GetLimit + 1
    /\ bErr = Err("ReferenceObjectsCount", "") /\ calls = 0

\* C16: a batch operation given an empty list of items makes no backend call and
\* returns a nil error.
C16_EmptyBatchMakesNoCall ==
    (Entered /\ bItems = <<>> /\ PassesValidation) =>
        /\ calls = 0
        /\ bPc # "panic"
        /\ (bPc = "done" => bErr = NoErr)

\* C17: BatchWriteCreate given a nil list of items on a known table makes no
\* backend call and returns NilModelError.
C17_NilItemsIsNilModelError ==
    (op = "BatchWriteCreate" /\ bPc # "start" /\ bNil /\ tableOk) =>
        /\ calls = 0
        /\ bPc # "panic"
        /\ (bPc = "done" => bErr.kind = "NilModel")

\* C18: when a backend call fails with a non-retryable error the operation returns
\* at that call, having called no backoff, and the error is the backend's error
\* (an AwsError kind) prefixed with q.batchWriteUtil or q.batchGetUtil.
C18_NonRetryableReturnsAtOnce ==
    LastRejected =>
        /\ bPc = "done"
        /\ calls = hist.nonEmpty + 1
        /\ hist.backoffs = 0 /\ rCalls = 0
        /\ bErr.kind = handleErr(hist.lastExc)
        /\ bErr.kind \in {"ResourceNotFound", "CollectionSizeExceeded",
                          "ConditionCheckFailed", "InternalError"}
        /\ bErr.wrap = IF op = "BatchGet" THEN "q.batchGetUtil" ELSE "q.batchWriteUtil"

C18_Witness ==
    /\ op = "BatchGet" /\ bPc = "done" /\ calls = 1
    /\ hist.lastExc = "ResourceNotFoundException"
    /\ bErr = Err("ResourceNotFound", "q.batchGetUtil")

ValidRequests == {"C", "U", "D", "CC"}
TxReturned == op = "TxWrite" /\ txPc # "start"
InvalidMembers == {i \in 1..Len(txItems) : txItems[i].request \notin ValidRequests}
EntryOf(request) ==
    CASE request = "C" -> "Put" [] request = "U" -> "Update"
      [] request = "D" -> "Delete" [] request = "CC" -> "ConditionCheck" [] OTHER -> "none"

\* C20: TxWrite given more than 25 members returns TxItemsExceedsLimit with no
\* failed member and submits nothing; given exactly 25 valid members it submits.
C20_TxOverLimitRefusedAtLimitAccepted ==
    (op = "TxWrite" /\ txPc # "start") =>
        /\ (Len(txItems) > TxLimit) =>
              /\ txPc = "done" /\ txErr = Err("TxItemsExceedsLimit", "")
              /\ failed = <<>> /\ txCalls = 0 /\ txResp = NoTxResp
        /\ (Len(txItems) = TxLimit) =>
              /\ txErr.kind # "TxItemsExceedsLimit"
              /\ (\A i \in 1..Len(txItems) : txItems[i].request \in ValidRequests) => txCalls = 1

C20_Witness ==
    /\ op = "TxWrite" /\ txPc = "done" /\ Len(txItems) = TxLimit + 1
    /\ txErr.kind = "TxItemsExceedsLimit" /\ txCalls = 0

\* C21 (as stated): a member of a kind other than C, U, D, CC (such as the R of
\* NewReadTxItem) makes TxWrite return InvalidRequestType without submitting.
C21_InvalidKindIsInvalidRequestType ==
    (TxReturned /\ InvalidMembers # {}) =>
        /\ txPc = "done" /\ txErr.kind = "InvalidRequestType"
        /\ txCalls = 0 /\ txInput = NoTxInput

\* C21 (amended): such a member makes TxWrite return an error without submitting
\* anything: TxItemsExceedsLimit for more than 25 members, the marshalling error of
\* a create member that precedes every invalid member, and else InvalidRequestType.
C21_InvalidKindNeverSubmitted ==
    (TxReturned /\ InvalidMembers # {}) =>
        /\ txPc = "done" /\ txCalls = 0 /\ txInput = NoTxInput /\ txResp = NoTxResp
        /\ failed = <<>>
        /\ txErr = IF Len(txItems) > TxLimit
                   THEN Err("TxItemsExceedsLimit", "")
                   ELSE IF \E i \in 1..Len(txItems) :
                             /\ txItems[i].request = "C" /\ txItems[i].Item = BadItem
                             /\ \A j \in InvalidMembers : i < j
                   THEN Err("InternalError", "newTxWriteItem")
                   ELSE Err("InvalidRequestType", "newTxWriteItem")

C21_Witness ==
    /\ TxReturned /\ Len(txItems) = 2
    /\ txItems[1].request = "U" /\ txItems[2].request = "R"
    /\ txErr.kind = "InvalidRequestType" /\ txCalls = 0

\* C22: on a TransactionConflictException TxWrite returns TxConflict, which is
\* retryable, and on a TransactionInProgressException TxInProgress, which is not;
\* either way after exactly one submission and with an empty failed-member list.
C22_ConflictRetryableInProgressNot ==
    /\ (TxReturned /\ txResp.exc = "TransactionConflictException") =>
          /\ txPc = "done" /\ txErr.kind = "TxConflict" /\ Retryable(txErr.kind)
          /\ txCalls = 1 /\ failed = <<>>
    /\ (TxReturned /\ txResp.exc = "TransactionInProgressException") =>
          /\ txPc = "done" /\ txErr.kind = "TxInProgress" /\ ~Retryable(txErr.kind)
          /\ txCalls = 1 /\ failed = <<>>

C22_Witness ==
    /\ TxReturned /\ txResp.exc = "TransactionInProgressException"
    /\ txErr.kind = "TxInProgress" /\ Len(txItems) = 2 /\ txCalls = 1

\* C24: what TxWrite submits is one request with one entry per member, in the
\* members' order and of each member's kind, carrying the request token exactly when
\* a non-empty token was given; when the backend accepts it TxWrite returns an empty
\* failed-member list and a nil error.
C24_OneEntryPerMemberInOrder ==
    (op = "TxWrite" /\ txCalls >= 1) =>
        /\ txCalls = 1
        /\ Len(txInput.entries) = Len(txItems)
        /\ \A i \in 1..Len(txItems) :
              /\ txInput.entries[i].of = txItems[i].Name
              /\ txInput.entries[i].entry = EntryOf(txItems[i].request)
              /\ txInput.entries[i].entry # "none"
        /\ (requestToken # "" => txInput.token = <<requestToken>>)
        /\ (requestToken = "" => txInput.token = <<>>)
        /\ (txResp.exc = "none" => txPc = "done" /\ failed = <<>> /\ txErr = NoErr)

C24_Witness ==
    /\ op = "TxWrite" /\ txCalls = 1 /\ txResp.exc = "none" /\ txErr = NoErr
    /\ Len(txItems) = 2 /\ txItems[1].request = "D" /\ txItems[2].request = "C"
    /\ requestToken # ""

\* C23: a TxWrite whose non-empty token is that of another TxWrite still pending at
\* the backend returns TxInProgress, after its one submission and without a retry.
C23_SameTokenWhilePendingIsInProgress ==
    \A i \in DOMAIN txPair :
        txPair[i].dup =>
            /\ txPair[i].pc = "done"
            /\ txPair[i].err.kind = "TxInProgress"
            /\ txPair[i].failed = <<>>
            /\ txPair[i].calls = 1

C23_Witness ==
    /\ op = "TxWriteTwice"
    /\ txPair[2].dup /\ txPair[2].err.kind = "TxInProgress" /\ txPair[2].calls = 1
    /\ txPair[1].pc = "done" /\ txPair[1].err = NoErr /\ txPair[1].calls = 1

\* C25: with two callers invoking batches at once and one after another on one
\* Queries client, every step is the step of one caller and leaves the other's
\* locals (its retry state included) as they are, every invocation that enters the
\* loop does so with a retry state of its own made from the configuration with
\* attempt = 0 and elapsed = 0, and the shared FailConfig is never changed.
C25_InvocationsOwnTheirRetryState ==
    [][op = "BatchTwice" =>
          /\ fc' = fc
          /\ \E i \in DOMAIN bPair : \A j \in DOMAIN bPair \ {i} : bPair'[j] = bPair[j]
          /\ \A i \in DOMAIN bPair :
                (bPair[i].pc # "loop" /\ bPair'[i].pc = "loop") =>
                    bPair'[i].retries = [base |-> fc.Base, cap |-> fc.Cap, jitter |-> fc.Jitter,
                                        attempt |-> 0, elapsed |-> 0]]_vars

C25_Witness ==
    /\ op = "BatchTwice"
    /\ bPair[1].pc = "loop" /\ bPair[1].calls = 2 /\ bPair[1].runs = 2
    /\ bPair[2].pc = "loop" /\ bPair[2].calls = 1 /\ bPair[2].runs = 1

\* C26: in a BatchGet invocation no refObjs slot is written by two returned items:
\* over all rounds, the slots the result lists are all different.
C26_ReturnedItemsKeepTheirSlots ==
    (op = "BatchGet" /\ bPc \in {"loop", "done"}) =>
        \A i, j \in 1..Len(items) : i # j => items[i] # items[j]

\* C27: the first request of a batch operation holds exactly the non-nil entries of
\* the input, in the input's order; nil entries raise no error.
C27_FirstRequestIsNonNilEntriesInOrder ==
    (Entered /\ calls = 0 /\ PassesValidation /\ BadItem \notin Range(bItems)
        /\ Len(bItems) <= (IF op = "BatchGet" THEN GetLimit ELSE WriteLimit)) =>
        /\ bPc = "loop" /\ bErr = NoErr
        /\ Len(input) = Cardinality({i \in 1..Len(bItems) : bItems[i] # NilItem})
        /\ \A n \in 1..Len(input) :
              \E i \in 1..Len(bItems) :
                  /\ input[n] = bItems[i] /\ bItems[i] # NilItem
                  /\ n = Cardinality({k \in 1..i : bItems[k] # NilItem})

C27_Witness ==
    /\ op = "BatchWriteDelete" /\ bPc = "loop" /\ calls = 0
    /\ bItems = <<NilItem, 2, 3>> /\ input = <<2, 3>>

\* the most successful calls a Retries value allows: one clamped call whenever
\* cap >= 1, and cap / base of them when that is more
MostBackoffs(r) ==
    IF r.cap = 0 THEN 0
    ELSE IF r.cap \div r.base >= 1 THEN r.cap \div r.base ELSE 1

\* C28 (as stated): with base >= 1 and a jitter bound >= 1 the successful
\* ExponentialBackoff calls on a Retries value number at most cap / base.
C28_AtMostCapOverBaseBackoffs ==
    (op = "ExponentialBackoff" /\ retries.base >= 1 /\ retries.jitter >= 1) =>
        retries.attempt <= retries.cap \div retries.base

\* C28 (amended): with base >= 1 and a jitter bound >= 1 every successful call
\* strictly increases elapsed, never past cap, a refused call leaves the value as it
\* is, and the successful calls number at most max(1, cap / base) (none for cap = 0):
\* every later call is refused with MaxRetriesExceeded.
C28_ExhaustsAfterBoundedBackoffs ==
    [][(op = "ExponentialBackoff" /\ retries.base >= 1 /\ retries.jitter >= 1
          /\ rCalls' = rCalls + 1) =>
            /\ rErr' \in {"nil", "MaxRetriesExceeded"}
            /\ (rErr' = "nil") =>
                  /\ retries.elapsed < retries'.elapsed
                  /\ retries'.elapsed <= retries.cap
                  /\ retries'.attempt = retries.attempt + 1
            /\ (rErr' = "MaxRetriesExceeded") =>
                  (retries.elapsed = retries.cap /\ retries' = retries)
            /\ retries'.attempt <= MostBackoffs(retries)
            /\ (rCalls' > MostBackoffs(retries) => rErr' = "MaxRetriesExceeded")]_vars

C28_Witness ==
    /\ op = "ExponentialBackoff" /\ retries.base = 2 /\ retries.cap = 1 /\ retries.jitter = 1
    /\ retries.attempt = 1 /\ rCalls = 2 /\ rErr = "MaxRetriesExceeded"

\* C29: a Tables call changes the registry only when its backend call succeeded:
\* a successful CreateTable adds the table, a successful DeleteTable removes it, a
\* failed backend call returns an error and leaves the registry as it was, and
\* DeleteTable of a name not in the registry returns TableNotFound with no backend call.
C29_RegistryChangesOnlyOnBackendSuccess ==
    (op = "Tables" /\ tCalls >= 1) =>
        /\ (tTables # tLast.before) => (tLast.backend = 1 /\ tLast.err = NoErr)
        /\ (tLast.backend = 1 /\ tLast.err = NoErr) =>
              tTables = IF tLast.call = "CreateTable"
                        THEN tLast.before \cup {tLast.name}
                        ELSE tLast.before \ {tLast.name}
        /\ (tLast.err # NoErr) => tTables = tLast.before
        /\ (tLast.call = "DeleteTable" /\ tLast.name \notin tLast.before) =>
              (tLast.err = Err("TableNotFound", "") /\ tLast.backend = 0)
        /\ (tLast.call = "DeleteTable" /\ tLast.name \in tLast.before) => tLast.backend = 1
        /\ (tLast.call = "CreateTable") => tLast.backend = 1

C29_Witness ==
    /\ op = "Tables" /\ tCalls = 2
    /\ tLast.call = "DeleteTable" /\ tLast.name = "t1" /\ tLast.before = {"t1"}
    /\ tLast.backend = 1 /\ tLast.err # NoErr /\ tTables = {"t1"}

\* C30: in a client built by NewDynamoDB the names known to Tables are at all times
\* the names known to Queries: a table passed at construction is not refused by
\* Tables.DeleteTable as unknown, and a table created through Tables.CreateTable is
\* known to the Queries operations.
C30_TablesAndQueriesKnowTheSameTables ==
    (op = "Tables") =>
        /\ tTables = qTables
        /\ (tLast.call = "DeleteTable" /\ tLast.name \in passed /\ tCalls = 1) =>
              tLast.err.kind # "TableNotFound"
        /\ (tLast.call = "CreateTable" /\ tLast.err = NoErr) => tLast.name \in qTables

====
